---- MODULE Spec2Model ----
(***************************************************************************)
(* apps.plugin: classification of processes into targets, aggregation of   *)
(* the per-process metrics on the targets and cleanup of exited processes  *)
(* (aggregate_processes_to_targets and the functions it calls).            *)
(***************************************************************************)
EXTENDS Integers, Sequences, FiniteSets, TLC

\* ---------------------------------------------------------------------------
\* bounds of the model

\* the largest value the collector reads for one metric of one process
MaxValue == 1
\* SetKeep is not taken on a record whose keeploops reached this value
MaxKeepLoops == 2
\* the number of metrics of a process and of a target: values[0 .. PDF_MAX - 1]
PDF_MAX == 2
\* the number of files the table of the open files has room for
MaxFiles == 2
\* the collector finds no new process once targets_assignment_counter, with
\* the processes that wait for a target, reached this value
MaxAssignments == 4

\* ---------------------------------------------------------------------------
\* constants of the program

\* the index of the uptime in the values of a process and of a target
PDF_UPTIME == 1
Metrics == 0 .. (PDF_MAX - 1)

TARGET_TYPE_APP_GROUP == "APP_GROUP"
TARGET_TYPE_TREE == "TREE"
TARGET_TYPE_UID == "UID"
TARGET_TYPE_GID == "GID"

\* the pids of the host; 0 is no process (a NULL struct pid_stat *)
Pids == {1, 2, 3}
NoPid == 0

\* a struct target * is the identity of the target it points to
NULL == [type |-> "NULL", key |-> 0]
AppGroupTarget(i) == [type |-> TARGET_TYPE_APP_GROUP, key |-> i]
TreeTarget(k) == [type |-> TARGET_TYPE_TREE, key |-> k]
UidTarget(u) == [type |-> TARGET_TYPE_UID, key |-> u]
GidTarget(g) == [type |-> TARGET_TYPE_GID, key |-> g]

\* the places of the table of all the open files; a slot of a process refers
\* to one by its number, and 0 or less is a slot that holds no file
Files == 1 .. MaxFiles

\* a STRING is the sequence of its characters; NULL is no STRING at all
NULL_STRING == <<"NULL">>
\* a SIMPLE_PATTERN is the set of the strings it matches; NULL is no pattern
NULL_PATTERN == <<>>
Pattern(strings) == <<strings>>

\* ---------------------------------------------------------------------------
\* strings

string_starts_with_string(whole, prefix) ==
    /\ Len(prefix) <= Len(whole)
    /\ SubSeq(whole, 1, Len(prefix)) = prefix

string_ends_with_string(whole, suffix) ==
    /\ Len(suffix) <= Len(whole)
    /\ SubSeq(whole, Len(whole) - Len(suffix) + 1, Len(whole)) = suffix

strstr(haystack, needle) ==
    \E o \in 0 .. (Len(haystack) - Len(needle)) :
        SubSeq(haystack, o + 1, o + Len(needle)) = needle

simple_pattern_matches_string(pattern, str) ==
    str \in pattern[1]

\* ---------------------------------------------------------------------------
\* state

VARIABLES
    config,                  \* the targets of apps_groups.conf, in its order
    host,                    \* what /proc says of each pid: ppid, names, manager
    phase,                   \* "collecting" | "aggregated"
    root_of_pids,            \* the list of the struct pid_stat, first to last
    pid_stat,                \* the struct pid_stat of each pid of the list
    apps_groups_root_target, \* the list of the apps groups and tree targets
    users_root_target,       \* the list of the user targets
    groups_root_target,      \* the list of the user group targets
    target,                  \* the struct target of each target of the lists
    apps_groups_targets_count,
    targets_assignment_counter,
    all_files,               \* the count of the slots that refer to each file
    enable_file_charts,
    sect,                    \* a struct config_section: its index of options,
                             \* its list of options and the owner of its lock
    options,                 \* the struct config_option of each address
    thread,                  \* the call each thread makes and where it is in it
    faults,                  \* the undefined behaviour the calls ran into
    loops_not_updated,       \* for each struct pid_stat, the calls of
                             \* cleanup_exited_pids in a row that found it not
                             \* updated and kept it, counted up to two
    entry                    \* root_of_pids, pid_stat and phase as the last call
                             \* of aggregate_processes_to_targets found them

vars == <<config, host, phase, root_of_pids, pid_stat, apps_groups_root_target,
          users_root_target, groups_root_target, target,
          apps_groups_targets_count, targets_assignment_counter, all_files,
          enable_file_charts,
          sect, options, thread, faults, loops_not_updated, entry>>

\* the state of the process accounting, and the state of a section of options
apps_vars == <<config, host, phase, root_of_pids, pid_stat,
               apps_groups_root_target, users_root_target, groups_root_target,
               target, apps_groups_targets_count, targets_assignment_counter,
               all_files, enable_file_charts, loops_not_updated, entry>>
appconfig_vars == <<sect, options, thread, faults>>

\* a struct pid_stat right after its allocation
NewPidStat(values, uid, gid) ==
    [updated |-> TRUE, keep |-> FALSE, keeploops |-> 0,
     values |-> values, uid |-> uid, gid |-> gid,
     target |-> NULL, uid_target |-> NULL, gid_target |-> NULL,
     matched_by_config |-> FALSE, fds |-> <<>>]

\* the slot of a pid that has no struct pid_stat
NoPidStat ==
    [updated |-> FALSE, keep |-> FALSE, keeploops |-> 0,
     values |-> [f \in Metrics |-> 0], uid |-> 0, gid |-> 0,
     target |-> NULL, uid_target |-> NULL, gid_target |-> NULL,
     matched_by_config |-> FALSE, fds |-> <<>>]

\* a struct target right after its allocation
NewTarget ==
    [values |-> [f \in Metrics |-> 0], uptime_min |-> 0, uptime_max |-> 0,
     target_fds |-> {}, openfds |-> 0]

Range(s) == {s[i] : i \in 1 .. Len(s)}

\* p->parent: the struct pid_stat of the ppid, when the list has it
Parent(pids, p) ==
    IF host[p].ppid \in Range(pids) THEN host[p].ppid ELSE NoPid

is_process_manager(p) == host[p].is_manager

\* ---------------------------------------------------------------------------
\* assign a target to all processes

\* matched_apps_groups_target without its check of the process managers
matched_also_process_managers(p, i, matched) ==
    [target |-> IF config[i].target # NULL THEN config[i].target
                ELSE AppGroupTarget(i),
     matched_by_config |-> TRUE]

\* the outcome of matched_apps_groups_target for pid p and the target of
\* config[i]: the target returned and the new p->matched_by_config
matched_apps_groups_target(p, i, matched) ==
    IF is_process_manager(p)
    THEN [target |-> NULL, matched_by_config |-> matched]
    ELSE [target |-> IF config[i].target # NULL THEN config[i].target
                     ELSE AppGroupTarget(i),
          matched_by_config |-> TRUE]

\* the condition under which the loop of get_apps_groups_target_for_pid
\* returns at the target w of the list, for pid p
apps_groups_target_matches(p, w) ==
    LET comm == host[p].comm
        comm_orig == host[p].comm_orig
        cmdline == host[p].cmdline
    IN  IF ~w.starts_with /\ ~w.ends_with
        THEN IF w.pattern # NULL_PATTERN
             THEN simple_pattern_matches_string(w.pattern, comm)
             ELSE w.compare = comm \/ w.compare = comm_orig
        ELSE IF w.starts_with /\ ~w.ends_with
        THEN IF w.pattern # NULL_PATTERN
             THEN simple_pattern_matches_string(w.pattern, comm)
             ELSE \/ string_starts_with_string(comm, w.compare)
                  \/ (comm # comm_orig /\ string_starts_with_string(comm, w.compare))
        ELSE IF ~w.starts_with /\ w.ends_with
        THEN IF w.pattern # NULL_PATTERN
             THEN simple_pattern_matches_string(w.pattern, comm)
             ELSE \/ string_ends_with_string(comm, w.compare)
                  \/ (comm # comm_orig /\ string_ends_with_string(comm, w.compare))
        ELSE /\ cmdline # NULL_STRING
             /\ IF w.pattern # NULL_PATTERN
                THEN simple_pattern_matches_string(w.pattern, cmdline)
                ELSE strstr(cmdline, w.compare)

\* the loop of get_apps_groups_target_for_pid from the n-th target of list on
RECURSIVE apps_groups_scan(_, _, _, _)
apps_groups_scan(p, list, n, matched) ==
    IF n > Len(list)
    THEN [target |-> NULL, matched_by_config |-> matched]
    ELSE IF list[n].type # TARGET_TYPE_APP_GROUP
    THEN apps_groups_scan(p, list, n + 1, matched)
    ELSE IF apps_groups_target_matches(p, config[list[n].key])
    THEN matched_apps_groups_target(p, list[n].key, matched)
    ELSE apps_groups_scan(p, list, n + 1, matched)

\* a loop that goes on after a match and returns at the last one
RECURSIVE apps_groups_scan_to_last(_, _, _, _)
apps_groups_scan_to_last(p, list, n, found) ==
    IF n > Len(list) THEN found
    ELSE IF list[n].type = TARGET_TYPE_APP_GROUP
            /\ apps_groups_target_matches(p, config[list[n].key])
    THEN apps_groups_scan_to_last(p, list, n + 1,
             matched_apps_groups_target(p, list[n].key, found.matched_by_config))
    ELSE apps_groups_scan_to_last(p, list, n + 1, found)

get_apps_groups_target_of_last_match(p, list, matched) ==
    apps_groups_scan_to_last(p, list, 1,
        [target |-> NULL, matched_by_config |-> matched])

get_apps_groups_target_for_pid(p, list, matched) ==
    apps_groups_scan(p, list, 1, matched)

\* the first loop of assign_a_target_to_all_processes, from the n-th pid on
RECURSIVE assign_from_config(_, _, _, _)
assign_from_config(pids, list, st, n) ==
    IF n > Len(pids) THEN st
    ELSE LET p == pids[n]
             r == get_apps_groups_target_for_pid(p, list, st[p].matched_by_config)
         IN  IF st[p].target = NULL
             THEN assign_from_config(pids, list,
                      [st EXCEPT ![p].target = r.target,
                                 ![p].matched_by_config = r.matched_by_config],
                      n + 1)
             ELSE assign_from_config(pids, list, st, n + 1)

\* a first loop that calls get_apps_groups_target_for_pid for every process
count_assignments_of_all_from(pids, st, n, counter) ==
    counter + (Len(pids) - n + 1)

\* targets_assignment_counter after the first loop of
\* assign_a_target_to_all_processes, from the n-th pid on: every call of
\* get_apps_groups_target_for_pid adds one to it
RECURSIVE count_assignments_from(_, _, _, _)
count_assignments_from(pids, st, n, counter) ==
    IF n > Len(pids) THEN counter
    ELSE IF st[pids[n]].target = NULL
    THEN count_assignments_from(pids, st, n + 1, counter + 1)
    ELSE count_assignments_from(pids, st, n + 1, counter)

\* the walk, starting at the parent of pp
target_from_grandparents(pids, st, pp) ==
    IF pp = NoPid THEN NULL
    ELSE LET gp == Parent(pids, pp)
         IN  IF gp = NoPid \/ host[gp].is_manager THEN NULL
             ELSE IF st[gp].target # NULL /\ st[gp].matched_by_config
             THEN st[gp].target ELSE NULL

\* the walk, taking the target of the first parent that has one
RECURSIVE target_from_any_parent(_, _, _)
target_from_any_parent(pids, st, pp) ==
    IF pp = NoPid THEN NULL
    ELSE IF host[pp].is_manager THEN NULL
    ELSE IF st[pp].target # NULL THEN st[pp].target
    ELSE target_from_any_parent(pids, st, Parent(pids, pp))

\* the walk, not stopping at the process managers
RECURSIVE target_across_managers(_, _, _)
target_across_managers(pids, st, pp) ==
    IF pp = NoPid THEN NULL
    ELSE IF st[pp].target # NULL
    THEN IF st[pp].matched_by_config THEN st[pp].target ELSE NULL
    ELSE target_across_managers(pids, st, Parent(pids, pp))

\* the walk up the parents of p, at pp: the target p inherits, or NULL
RECURSIVE target_from_parents(_, _, _)
target_from_parents(pids, st, pp) ==
    IF pp = NoPid THEN NULL
    ELSE IF host[pp].is_manager THEN NULL
    ELSE IF st[pp].target # NULL
    THEN IF st[pp].matched_by_config THEN st[pp].target ELSE NULL
    ELSE target_from_parents(pids, st, Parent(pids, pp))

\* get_tree_target: the target of the position of p in the tree of the
\* processes, found in the list or added to it
get_tree_target(p) == TreeTarget(p)

\* the list of targets after a lookup that adds w when the list lacks it: the
\* app groups stay first, in their order, and the added targets follow by key
list_with_target(list, w) ==
    IF w \in Range(list) THEN list
    ELSE SelectSeq(list, LAMBDA x : x.type = TARGET_TYPE_APP_GROUP \/ x.key < w.key)
         \o <<w>>
         \o SelectSeq(list, LAMBDA x : x.type # TARGET_TYPE_APP_GROUP /\ x.key > w.key)

\* the second loop of assign_a_target_to_all_processes, from the n-th pid on
RECURSIVE assign_from_parents(_, _, _, _)
assign_from_parents(pids, list, st, n) ==
    IF n > Len(pids) THEN [pid_stat |-> st, list |-> list]
    ELSE LET p == pids[n]
             inherited == IF host[p].is_manager THEN NULL
                          ELSE target_from_parents(pids, st, Parent(pids, p))
         IN  IF st[p].target # NULL
             THEN assign_from_parents(pids, list, st, n + 1)
             ELSE IF inherited # NULL
             THEN assign_from_parents(pids, list,
                      [st EXCEPT ![p].target = inherited], n + 1)
             ELSE assign_from_parents(pids,
                      list_with_target(list, get_tree_target(p)),
                      [st EXCEPT ![p].target = get_tree_target(p)], n + 1)

\* assign_a_target_to_all_processes without its second loop
assign_only_from_config(pids, list, st) ==
    [pid_stat |-> assign_from_config(pids, list, st, 1), list |-> list]

assign_a_target_to_all_processes(pids, list, st) ==
    assign_from_parents(pids, list, assign_from_config(pids, list, st, 1), 1)

\* ---------------------------------------------------------------------------
\* update statistics on the targets

\* zero_all_targets without its loop over the values and the uptimes: only
\* the targets a lookup just added to the list are allocated
zero_all_targets_keeping_sums(list, tg) ==
    [w \in DOMAIN tg \cup Range(list) |->
        IF w \in DOMAIN tg THEN tg[w] ELSE NewTarget]

\* the struct target of the targets of list, zeroed (and allocated, for the
\* targets a lookup just added to the list)
zero_all_targets(list, tg) ==
    [w \in DOMAIN tg \cup Range(list) |->
        IF w \in Range(list) THEN NewTarget ELSE tg[w]]

zero_all_targets_count(list) == Len(list)

\* aggregate_pid_on_target without its check of p->updated
aggregate_pid_not_checking_updated(tg, w, p) ==
    IF w = NULL THEN tg
    ELSE [tg EXCEPT ![w].values =
            [f \in Metrics |-> tg[w].values[f] + p.values[f]]]

aggregate_pid_on_target(tg, w, p) ==
    IF ~p.updated THEN tg
    ELSE IF w = NULL THEN tg
    ELSE LET uptime == p.values[PDF_UPTIME]
             min == IF tg[w].uptime_min = 0 \/ uptime < tg[w].uptime_min
                    THEN uptime ELSE tg[w].uptime_min
             max == IF tg[w].uptime_max = 0 \/ tg[w].uptime_max < uptime
                    THEN uptime ELSE tg[w].uptime_max
         IN  [tg EXCEPT ![w].values =
                            [f \in Metrics |-> tg[w].values[f] + p.values[f]],
                        ![w].uptime_min = min,
                        ![w].uptime_max = max]

get_uid_target(uid) == UidTarget(uid)
get_gid_target(gid) == GidTarget(gid)

\* the struct target of each target, with the one of w allocated if new
with_target(tg, w) ==
    IF w \in DOMAIN tg THEN tg ELSE tg @@ (w :> NewTarget)

\* a fold that keeps the user target a process already has
cached_uid_target(ps) ==
    IF ps.uid_target # NULL THEN ps.uid_target ELSE get_uid_target(ps.uid)

\* the user target the loop aggregates the process ps on, and leaves in
\* ps.uid_target
uid_target_of_pid(ps) ==
    IF ps.uid_target # NULL /\ ps.uid_target.key = ps.uid
    THEN ps.uid_target ELSE get_uid_target(ps.uid)

\* the user group target the loop aggregates the process ps on
gid_target_of_pid(ps) ==
    IF ps.gid_target # NULL /\ ps.gid_target.key = ps.gid
    THEN ps.gid_target ELSE get_gid_target(ps.gid)

\* the files the valid slots of the table fds refer to
open_files(fds) ==
    { fds[c] : c \in { k \in 1 .. Len(fds) : fds[k] > 0 } }

\* aggregate_fd_on_target for each valid slot of the process: a file counts
\* once on a target, however many slots and processes refer to it
aggregate_fds_on_target(tg, w, ps) ==
    IF w = NULL THEN tg
    ELSE LET seen == tg[w].target_fds \cup open_files(ps.fds)
         IN  [tg EXCEPT ![w].target_fds = seen,
                        ![w].openfds = Cardinality(seen)]

\* aggregate_pid_fds_on_targets: the open files of an updated process, on
\* its three targets
aggregate_pid_fds_on_targets(tg, ps) ==
    IF ~ps.updated THEN tg
    ELSE aggregate_fds_on_target(
             aggregate_fds_on_target(
                 aggregate_fds_on_target(tg, ps.target, ps),
                 ps.uid_target, ps),
             ps.gid_target, ps)

\* the loop of aggregate_processes_to_targets over the pids, from the n-th on
RECURSIVE aggregate_from(_, _, _)
aggregate_from(pids, s, n) ==
    IF n > Len(pids) THEN s
    ELSE LET p == pids[n]
             ps == s.pid_stat[p]
             tg1 == aggregate_pid_on_target(s.target, ps.target, ps)
             uw == uid_target_of_pid(ps)
             tg2 == aggregate_pid_on_target(with_target(tg1, uw), uw, ps)
             gw == gid_target_of_pid(ps)
             tg3 == aggregate_pid_on_target(with_target(tg2, gw), gw, ps)
             tg4 == IF enable_file_charts
                    THEN aggregate_pid_fds_on_targets(tg3,
                             [ps EXCEPT !.uid_target = uw, !.gid_target = gw])
                    ELSE tg3
         IN  aggregate_from(pids,
                 [pid_stat |-> [s.pid_stat EXCEPT ![p].uid_target = uw,
                                                  ![p].gid_target = gw],
                  users |-> list_with_target(s.users, uw),
                  groups |-> list_with_target(s.groups, gw),
                  target |-> tg4],
                 n + 1)

\* a cleanup that spares every process that has keep set
cleanup_deletes_unless_keep(p) ==
    ~p.updated /\ ~p.keep

\* a cleanup that lets a process stay for two loops when keep is set again
cleanup_deletes_after_two_keeploops(p) ==
    ~p.updated /\ (~p.keep \/ p.keeploops > 1)

\* whether cleanup_exited_pids deletes the struct pid_stat p
cleanup_deletes(p) ==
    ~p.updated /\ (~p.keep \/ p.keeploops > 0)

\* a cleanup that does not count the loops it kept a process for
cleanup_keeps_not_counting(p) ==
    [p EXCEPT !.keep = FALSE]

\* the struct pid_stat p after a cleanup_exited_pids that keeps it
cleanup_keeps(p) ==
    [p EXCEPT !.keeploops = IF p.keep THEN p.keeploops + 1 ELSE p.keeploops,
              !.keep = FALSE]

\* file_descriptor_not_used: one slot less refers to the file
file_descriptor_not_used(files, fd) ==
    IF files[fd] > 0 THEN [files EXCEPT ![fd] = files[fd] - 1] ELSE files

\* a cleanup that releases the first slot of a process only
release_first_fd(files, fds, c) ==
    IF Len(fds) >= 1 /\ fds[1] > 0
    THEN file_descriptor_not_used(files, fds[1]) ELSE files

\* the loop of cleanup_exited_pids over the slots of a process it deletes,
\* from the slot c on: the table of the files after it
RECURSIVE release_fds(_, _, _)
release_fds(files, fds, c) ==
    IF c > Len(fds) THEN files
    ELSE IF fds[c] > 0
    THEN release_fds(file_descriptor_not_used(files, fds[c]), fds, c + 1)
    ELSE release_fds(files, fds, c + 1)

\* the loop of cleanup_exited_pids over the pids, from the n-th on: the
\* table of the files after it
RECURSIVE cleanup_fds_from(_, _, _, _)
cleanup_fds_from(pids, st, files, n) ==
    IF n > Len(pids) THEN files
    ELSE IF cleanup_deletes(st[pids[n]])
    THEN cleanup_fds_from(pids, st, release_fds(files, st[pids[n]].fds, 1), n + 1)
    ELSE cleanup_fds_from(pids, st, files, n + 1)

\* a cleanup that takes the values of the processes it deletes off the targets
cleanup_exited_pids_clearing_targets(pids, st, tg, files) ==
    [root_of_pids |-> SelectSeq(pids, LAMBDA p : ~cleanup_deletes(st[p])),
     pid_stat |-> [p \in Pids |->
                     IF p \notin Range(pids) \/ cleanup_deletes(st[p])
                     THEN NoPidStat ELSE cleanup_keeps(st[p])],
     target |-> [w \in DOMAIN tg |->
                    IF \E p \in Range(pids) :
                           cleanup_deletes(st[p]) /\ st[p].target = w
                    THEN NewTarget ELSE tg[w]],
     all_files |-> cleanup_fds_from(pids, st, files, 1)]

\* cleanup_exited_pids on the list pids of the processes st, with the targets
\* tg and the table of the files: all of them after it
cleanup_exited_pids(pids, st, tg, files) ==
    [root_of_pids |-> SelectSeq(pids, LAMBDA p : ~cleanup_deletes(st[p])),
     pid_stat |-> [p \in Pids |->
                     IF p \notin Range(pids) \/ cleanup_deletes(st[p])
                     THEN NoPidStat ELSE cleanup_keeps(st[p])],
     target |-> tg,
     all_files |-> cleanup_fds_from(pids, st, files, 1)]

\* ---------------------------------------------------------------------------
\* the hosts and configurations of the model

sA == <<"a">>
sAB == <<"a", "b">>
sBA == <<"b", "a">>
sBB == <<"b", "b">>
sABA == <<"a", "b", "a">>

AppGroup(starts_with, ends_with, pattern, compare, alias) ==
    [starts_with |-> starts_with, ends_with |-> ends_with,
     pattern |-> pattern, compare |-> compare, target |-> alias]

\* exact first, then the prefix, suffix and command line rules
ConfigExactFirst ==
    << AppGroup(FALSE, FALSE, NULL_PATTERN, sAB, NULL),
       AppGroup(TRUE, FALSE, NULL_PATTERN, sA, NULL),
       AppGroup(FALSE, TRUE, NULL_PATTERN, sBB, AppGroupTarget(1)),
       AppGroup(TRUE, TRUE, NULL_PATTERN, sBA, NULL) >>

\* a prefix rule with an alias ahead of the exact rules, and patterns
ConfigPrefixFirst ==
    << AppGroup(TRUE, FALSE, NULL_PATTERN, sA, AppGroupTarget(3)),
       AppGroup(FALSE, FALSE, Pattern({sAB, sBB}), sA, NULL),
       AppGroup(FALSE, FALSE, NULL_PATTERN, sAB, NULL),
       AppGroup(TRUE, TRUE, Pattern({sABA}), sA, NULL) >>

Configs == {ConfigExactFirst, ConfigPrefixFirst}

\* what the collector can find of one pid: its parent, its names, whether it
\* is a process manager, the values, uids and gids it is read with, and
\* whether the collector ever asks to keep it after its exit
Proc(ppid, names, is_manager, values, uids, gids, keep) ==
    [ppid |-> ppid, comm |-> names[1], comm_orig |-> names[2],
     cmdline |-> names[3], is_manager |-> is_manager,
     values |-> values, uids |-> uids, gids |-> gids, keep |-> keep,
     fds |-> {<<>>}]

\* a process that is found with one of the tables fds of open files
Opening(proc, fds) == [proc EXCEPT !.fds = fds]

\* the names a process can have: comm, comm_orig, cmdline
NameAB == <<sAB, sAB, NULL_STRING>>
NameBA == <<sBA, sBA, NULL_STRING>>
NameBAcmd == <<sBA, sBA, sABA>>
NameBBorigAB == <<sBB, sAB, NULL_STRING>>

\* the ppid of each pid: a chain 1 <- 2 <- 3, or 2 and 3 children of 1
ChainTree == <<NoPid, 1, 2>>
Trees == { ChainTree, <<NoPid, 1, 1>> }

AllValues == [Metrics -> 0 .. MaxValue]
OneValue == {[f \in Metrics |-> 1]}

\* a process that is read with no values does not exist
Nothing == {}

\* hosts that differ in the names of the first process, under each config
HostsOfNames ==
    { [p \in Pids |-> Proc(ChainTree[p], n[p], FALSE, v[p], {0}, {0}, FALSE)] :
        n \in { <<n1, NameBA, NameBA>> :
                  n1 \in {NameAB, NameBA, NameBAcmd, NameBBorigAB} },
        v \in { <<OneValue, OneValue, Nothing>> } }

\* hosts that differ in the tree, the process managers and who matches
HostsOfTrees ==
    { [p \in Pids |-> Proc(t[p], n[p], p \in m, OneValue, {0}, {0}, FALSE)] :
        t \in Trees, m \in {{}, {1}, {2}},
        n \in { <<n1, n2, n3>> : n1 \in {NameAB, NameBA},
                                 n2 \in {NameAB, NameBA},
                                 n3 \in {NameBA, NameBAcmd} } }

\* hosts whose first process changes its values, and hosts whose processes
\* change their uid or their gid
HostsOfAggregator ==
    { [p \in Pids |-> Proc(ChainTree[p], NameAB, FALSE, v[p], u[p], g[p], FALSE)] :
        v \in { <<AllValues, OneValue, Nothing>> },
        u \in { <<{0}, {0}, {0}>> },
        g \in { <<{0}, {0}, {0}>> } }
    \cup
    { [p \in Pids |-> Proc(ChainTree[p], NameAB, FALSE, v[p], u[p], g[p], FALSE)] :
        v \in { <<OneValue, OneValue, Nothing>> },
        u \in { <<{0, 1}, {0, 1}, {0}>> },
        g \in { <<{0}, {0}, {0}>>, <<{0}, {0, 1}, {0}>> } }

\* hosts whose exited processes are kept
HostsOfReaper ==
    { [p \in Pids |-> Proc(ChainTree[p], n[p], FALSE, v[p], {0}, {0}, p \in k)] :
        n \in { <<NameAB, NameBA, NameBA>> },
        v \in { <<OneValue, OneValue, Nothing>> },
        k \in {{1, 2}} }

\* hosts whose processes have open files, some of them shared, and are kept
HostsOfFiles ==
    { [p \in Pids |->
         Opening(Proc(ChainTree[p], n[p], FALSE, v[p], {0}, {0}, p \in k), o[p])] :
        n \in { <<NameAB, NameBA, NameBA>> },
        v \in { <<OneValue, OneValue, OneValue>> },
        k \in {{3}},
        o \in { << {<<1, MaxFiles>>, <<1, 0>>}, {<<MaxFiles, 1>>}, {<<>>} >> } }

Scenarios ==
    {[config |-> c, host |-> h, file_charts |-> TRUE] :
        c \in Configs, h \in HostsOfNames}
    \cup {[config |-> ConfigExactFirst, host |-> h, file_charts |-> TRUE] :
             h \in HostsOfTrees \cup HostsOfAggregator \cup HostsOfReaper}
    \cup {[config |-> ConfigExactFirst, host |-> h, file_charts |-> e] :
             h \in HostsOfFiles, e \in BOOLEAN}

NoEntry ==
    [root_of_pids |-> <<>>, pid_stat |-> [p \in Pids |-> NoPidStat],
     phase |-> "collecting"]

\* ---------------------------------------------------------------------------
\* a section of options (appconfig_options.c): data

\* the threads that call into the section; 0 is no thread (the lock is free)
Threads == {1, 2, 3}
NoThread == 0

\* a struct config_option * is the address it holds; 0 is NULL. The section
\* can start with the options at the addresses 1 and 2, and callocz gives
\* the thread t the address OptionOf(t)
NoOption == 0
OptionX == 1
OptionY == 2
OptionOf(t) == OptionY + t
Addresses == {OptionX, OptionY} \cup {OptionOf(t) : t \in Threads}

CONFIG_VALUE_LOADED == "LOADED"
CONFIG_VALUE_USED == "USED"
CONFIG_VALUE_CHANGED == "CHANGED"
CONFIG_VALUE_CHECKED == "CHECKED"

\* the memory at an address: never allocated, a struct config_option, or freed
NoConfigOption ==
    [state |-> "unallocated", name |-> "", value |-> "", value_default |-> "",
     flags |-> {}]

\* a struct config_option as appconfig_option_create fills it
NewConfigOption(name, value) ==
    [state |-> "allocated", name |-> name, value |-> value,
     value_default |-> "", flags |-> {}]

\* a struct config_option after appconfig_option_free
FreedConfigOption ==
    [state |-> "freed", name |-> "", value |-> "", value_default |-> "",
     flags |-> {}]

\* an option that was loaded from the configuration file
LoadedConfigOption(name, value) ==
    [NewConfigOption(name, value) EXCEPT !.flags = {CONFIG_VALUE_LOADED}]

\* the calls a thread can make, all for the option "x" with the value or the
\* default value "v"; a thread that removes first finds the option to remove
Operations ==
    << "create", "get", "get_no_default", "set", "find", "remove", "remove_all" >>

\* the calls of the threads: any, up to the names of the threads
Programs ==
    { f \in [Threads -> 1 .. Len(Operations)] :
        \A t, u \in Threads : t <= u => f[t] <= f[u] }

\* where a call starts
FirstStep(op) ==
    IF op = "create" THEN "create"
    ELSE IF op = "remove_all" THEN "all_lock"
    ELSE "find"

\* the sections the calls can find: empty, with "x", with "y" and "x"
Sections ==
    { [values_index |-> {}, values |-> <<>>, lock |-> NoThread],
      [values_index |-> {OptionX}, values |-> <<OptionX>>, lock |-> NoThread],
      [values_index |-> {OptionX, OptionY}, values |-> <<OptionY, OptionX>>,
       lock |-> NoThread] }

OptionsOfSection(section) ==
    [o \in Addresses |->
        IF o \notin section.values_index THEN NoConfigOption
        ELSE IF o = OptionX THEN LoadedConfigOption("x", "w")
        ELSE LoadedConfigOption("y", "w")]

\* no thread calls into the section
NoCalls ==
    /\ sect = [values_index |-> {}, values |-> <<>>, lock |-> NoThread]
    /\ options = [o \in Addresses |-> NoConfigOption]
    /\ thread = [t \in Threads |-> [op |-> "none", pc |-> "done", opt |-> NoOption,
                                    seen |-> NoConfigOption]]
    /\ faults = {}

\* ---------------------------------------------------------------------------
\* the initial states

InitOfApps(scenarios) ==
    /\ \E s \in scenarios :
          /\ config = s.config
          /\ host = s.host
          /\ enable_file_charts = s.file_charts
    /\ all_files = [fd \in Files |-> 0]
    /\ phase = "collecting"
    /\ root_of_pids = <<>>
    /\ pid_stat = [p \in Pids |-> NoPidStat]
    /\ apps_groups_root_target = [i \in 1 .. Len(config) |-> AppGroupTarget(i)]
    /\ users_root_target = <<>>
    /\ groups_root_target = <<>>
    /\ target = [w \in {AppGroupTarget(i) : i \in 1 .. Len(config)} |-> NewTarget]
    /\ apps_groups_targets_count = 0
    /\ targets_assignment_counter = 0
    /\ loops_not_updated = [p \in Pids |-> 0]
    /\ entry = NoEntry

Init ==
    /\ InitOfApps(Scenarios)
    /\ NoCalls

\* ---------------------------------------------------------------------------
\* the operations

\* the collector starts a cycle: no process is updated yet
BeginCycle ==
    /\ phase = "aggregated"
    /\ phase' = "collecting"
    /\ pid_stat' = [p \in Pids |-> [pid_stat[p] EXCEPT !.updated = FALSE]]
    /\ entry' = NoEntry
    /\ UNCHANGED <<config, host, root_of_pids, apps_groups_root_target,
                   users_root_target, groups_root_target, target,
                   apps_groups_targets_count, targets_assignment_counter,
                   all_files, enable_file_charts,
                   loops_not_updated>>
    /\ UNCHANGED appconfig_vars

\* the table of the files after the collector filled the slots fds: one more
\* slot refers to each file of a valid slot
RECURSIVE file_descriptors_used(_, _)
file_descriptors_used(files, fds) ==
    IF fds = <<>> THEN files
    ELSE IF Head(fds) > 0
    THEN file_descriptors_used(
             [files EXCEPT ![Head(fds)] = files[Head(fds)] + 1], Tail(fds))
    ELSE file_descriptors_used(files, Tail(fds))

\* the table of the files after the collector dropped the slots fds, to fill
\* them again: one slot less refers to each file of a valid slot
RECURSIVE file_descriptors_dropped(_, _)
file_descriptors_dropped(files, fds) ==
    IF fds = <<>> THEN files
    ELSE IF Head(fds) > 0
    THEN file_descriptors_dropped(
             [files EXCEPT ![Head(fds)] = files[Head(fds)] - 1], Tail(fds))
    ELSE file_descriptors_dropped(files, Tail(fds))

\* the collector finds a process it has no struct pid_stat for
NewPid(p, values, uid, gid) ==
    /\ phase = "collecting"
    /\ p \notin Range(root_of_pids)
    /\ count_assignments_from(root_of_pids, pid_stat, 1,
                              targets_assignment_counter) < MaxAssignments
    /\ values \in host[p].values /\ uid \in host[p].uids /\ gid \in host[p].gids
    /\ root_of_pids' = <<p>> \o root_of_pids
    /\ \E fds \in host[p].fds :
          /\ pid_stat' = [pid_stat EXCEPT
                             ![p] = [NewPidStat(values, uid, gid) EXCEPT !.fds = fds]]
          /\ all_files' = file_descriptors_used(all_files, fds)
    /\ UNCHANGED <<config, host, phase, apps_groups_root_target,
                   users_root_target, groups_root_target, target,
                   apps_groups_targets_count, targets_assignment_counter,
                   enable_file_charts,
                   loops_not_updated, entry>>
    /\ UNCHANGED appconfig_vars

\* the collector reads a process it has a struct pid_stat for
ReadPid(p, values, uid, gid) ==
    /\ phase = "collecting"
    /\ p \in Range(root_of_pids)
    /\ ~pid_stat[p].updated
    /\ values \in host[p].values /\ uid \in host[p].uids /\ gid \in host[p].gids
    /\ \E fds \in host[p].fds :
          /\ pid_stat' = [pid_stat EXCEPT ![p].updated = TRUE,
                                          ![p].values = values,
                                          ![p].uid = uid, ![p].gid = gid,
                                          ![p].fds = fds]
          /\ all_files' = file_descriptors_used(
                              file_descriptors_dropped(all_files, pid_stat[p].fds),
                              fds)
    /\ UNCHANGED <<config, host, phase, root_of_pids, apps_groups_root_target,
                   users_root_target, groups_root_target, target,
                   apps_groups_targets_count, targets_assignment_counter,
                   enable_file_charts,
                   loops_not_updated, entry>>
    /\ UNCHANGED appconfig_vars

\* the collector asks for a process to be kept
SetKeep(p) ==
    /\ phase = "collecting"
    /\ p \in Range(root_of_pids)
    /\ host[p].keep
    /\ ~pid_stat[p].keep
    /\ pid_stat[p].keeploops < MaxKeepLoops
    /\ pid_stat' = [pid_stat EXCEPT ![p].keep = TRUE]
    /\ UNCHANGED <<config, host, phase, root_of_pids, apps_groups_root_target,
                   users_root_target, groups_root_target, target,
                   apps_groups_targets_count, targets_assignment_counter,
                   all_files, enable_file_charts,
                   loops_not_updated, entry>>
    /\ UNCHANGED appconfig_vars

\* aggregate_processes_to_targets up to its call of cleanup_exited_pids: the
\* lists, the targets and the processes as the cleanup finds them
processes_on_targets ==
    LET assigned == assign_a_target_to_all_processes(
                        root_of_pids, apps_groups_root_target, pid_stat)
        zeroed == zero_all_targets(groups_root_target,
                      zero_all_targets(users_root_target,
                          zero_all_targets(assigned.list, target)))
        folded == aggregate_from(root_of_pids,
                      [pid_stat |-> assigned.pid_stat,
                       users |-> users_root_target,
                       groups |-> groups_root_target,
                       target |-> zeroed], 1)
    IN  [apps_groups |-> assigned.list,
         count |-> zero_all_targets_count(assigned.list),
         users |-> folded.users,
         groups |-> folded.groups,
         target |-> folded.target,
         pid_stat |-> folded.pid_stat]

aggregate_processes_to_targets ==
    \E assigned \in { assign_a_target_to_all_processes(
                          root_of_pids, apps_groups_root_target, pid_stat) } :
    \E zeroed \in { zero_all_targets(groups_root_target,
                        zero_all_targets(users_root_target,
                            zero_all_targets(assigned.list, target))) } :
    \E folded \in { aggregate_from(root_of_pids,
                        [pid_stat |-> assigned.pid_stat,
                         users |-> users_root_target,
                         groups |-> groups_root_target,
                         target |-> zeroed], 1) } :
    \E cleaned \in { cleanup_exited_pids(root_of_pids, folded.pid_stat,
                                         folded.target, all_files) } :
        /\ apps_groups_root_target' = assigned.list
        /\ apps_groups_targets_count' = zero_all_targets_count(assigned.list)
        /\ targets_assignment_counter' =
              count_assignments_from(root_of_pids, pid_stat, 1,
                                     targets_assignment_counter)
        /\ users_root_target' = folded.users
        /\ groups_root_target' = folded.groups
        /\ target' = cleaned.target
        /\ all_files' = cleaned.all_files
        /\ root_of_pids' = cleaned.root_of_pids
        /\ pid_stat' = cleaned.pid_stat
        /\ loops_not_updated' =
              [p \in Pids |->
                  IF p \in Range(cleaned.root_of_pids) /\ ~cleaned.pid_stat[p].updated
                  THEN (IF loops_not_updated[p] < 2
                        THEN loops_not_updated[p] + 1 ELSE 2)
                  ELSE 0]
        /\ entry' = [root_of_pids |-> root_of_pids, pid_stat |-> pid_stat,
                      phase |-> phase]
        /\ phase' = "aggregated"
        /\ UNCHANGED <<config, host, enable_file_charts>>
        /\ UNCHANGED appconfig_vars

Next ==
    \/ BeginCycle
    \/ \E p \in Pids, values \in AllValues, uid \in {0, 1}, gid \in {0, 1} :
           NewPid(p, values, uid, gid)
    \/ \E p \in Pids, values \in AllValues, uid \in {0, 1}, gid \in {0, 1} :
           ReadPid(p, values, uid, gid)
    \/ \E p \in Pids : SetKeep(p)
    \/ aggregate_processes_to_targets

Spec == Init /\ [][Next]_vars

\* ---------------------------------------------------------------------------
\* a section of options (appconfig_options.c): the calls, step by step

Crashed == "crash" \in faults

\* what undefined behaviour can do: end the process, or let the call go on
Outcomes == {"crash", "goes on"}

\* avl_search_lock: the option of the index that has the name, or NULL
FindInIndex(name) ==
    IF \E o \in sect.values_index : options[o].name = name
    THEN CHOOSE o \in sect.values_index : options[o].name = name
    ELSE NoOption

\* avl_remove_lock: the index without the option that has the name
IndexWithout(name) ==
    { o \in sect.values_index : options[o].name # name }

RemoveFromList(list, o) == SelectSeq(list, LAMBDA x : x # o)

\* where a call goes on after appconfig_option_find returned rc
AfterFind(op, rc) ==
    IF op = "find" THEN "done"
    ELSE IF op = "remove" THEN (IF rc # NoOption THEN "remove" ELSE "done")
    ELSE IF rc # NoOption THEN "use"
    ELSE IF op = "get_no_default" THEN "done"
    ELSE "create"

\* where a call goes on after appconfig_option_create returned
AfterCreate(op) == IF op = "create" THEN "done" ELSE "use"

\* appconfig_option_find, as the call "find" and as the first step of the
\* calls that get, set and remove
appconfig_option_find(t) ==
    /\ ~Crashed
    /\ thread[t].pc = "find"
    /\ thread' = [thread EXCEPT
                     ![t].opt = FindInIndex("x"),
                     ![t].pc = AfterFind(thread[t].op, FindInIndex("x"))]
    /\ UNCHANGED <<sect, options, faults>>
    /\ UNCHANGED apps_vars

\* a creator that links its option whatever the index returned
create_keeps_any(opt_found, opt) == TRUE

\* appconfig_option_create keeps the option it allocated when the index
\* returned that very option
create_keeps_own(opt_found, opt) == opt_found = opt

\* appconfig_option_create up to its return or its SECTION_LOCK: the option
\* is allocated and added to the index, which returns the option of that
\* name it has already, if any; then the new option is freed
appconfig_option_create_add(t) ==
    /\ ~Crashed
    /\ thread[t].pc = "create"
    /\ LET opt == OptionOf(t)
           inserted == FindInIndex("x") = NoOption
           opt_found == IF inserted THEN opt ELSE FindInIndex("x")
       IN  /\ sect' = [sect EXCEPT !.values_index =
                          IF inserted THEN @ \cup {opt} ELSE @]
           /\ IF create_keeps_own(opt_found, opt)
              THEN /\ options' = [options EXCEPT ![opt] = NewConfigOption("x", "v")]
                   /\ thread' = [thread EXCEPT ![t].opt = opt,
                                               ![t].pc = "create_lock"]
              ELSE /\ options' = [options EXCEPT ![opt] = FreedConfigOption]
                   /\ thread' = [thread EXCEPT ![t].opt = opt_found,
                                               ![t].pc = AfterCreate(thread[t].op)]
    /\ UNCHANGED faults
    /\ UNCHANGED apps_vars

\* SECTION_LOCK of appconfig_option_create
appconfig_option_create_lock(t) ==
    /\ ~Crashed
    /\ thread[t].pc = "create_lock"
    /\ sect.lock = NoThread
    /\ sect' = [sect EXCEPT !.lock = t]
    /\ thread' = [thread EXCEPT ![t].pc = "create_append"]
    /\ UNCHANGED <<options, faults>>
    /\ UNCHANGED apps_vars

\* the append to the list of the section, and SECTION_UNLOCK
appconfig_option_create_append(t) ==
    /\ ~Crashed
    /\ thread[t].pc = "create_append"
    /\ IF options[thread[t].opt].state = "freed"
       THEN \E outcome \in Outcomes :
               faults' = faults \cup {"use_after_free"}
                            \cup (IF outcome = "crash" THEN {"crash"} ELSE {})
       ELSE faults' = faults
    /\ sect' = [sect EXCEPT !.values = Append(@, thread[t].opt),
                            !.lock = NoThread]
    /\ thread' = [thread EXCEPT ![t].pc = AfterCreate(thread[t].op)]
    /\ UNCHANGED options
    /\ UNCHANGED apps_vars

\* appconfig_get_raw_value_of_option with the default value default_value
\* ("" is NULL), no type and no callback
appconfig_get_raw_value_of_option(opt, default_value) ==
    LET loaded == opt.flags \cap {CONFIG_VALUE_LOADED, CONFIG_VALUE_CHANGED} # {}
        check == loaded /\ CONFIG_VALUE_CHECKED \notin opt.flags
        changed == check /\ default_value # "" /\ opt.value # default_value
    IN  [opt EXCEPT
            !.flags = @ \cup {CONFIG_VALUE_USED}
                        \cup (IF changed THEN {CONFIG_VALUE_CHANGED} ELSE {})
                        \cup (IF check THEN {CONFIG_VALUE_CHECKED} ELSE {}),
            !.value_default = IF @ = "" THEN default_value ELSE @]

\* appconfig_set_raw_value_of_option with the value value and no type
appconfig_set_raw_value_of_option(opt, value) ==
    [opt EXCEPT
        !.flags = @ \cup {CONFIG_VALUE_USED}
                    \cup (IF opt.value # value THEN {CONFIG_VALUE_CHANGED} ELSE {}),
        !.value = value]

\* the calls that get and set read and write the option found or created
\* with no lock held. The first step: the call reads the option
appconfig_raw_value_of_option_read(t) ==
    /\ ~Crashed
    /\ thread[t].pc = "use"
    /\ IF options[thread[t].opt].state = "freed"
       THEN /\ \E outcome \in Outcomes :
                  faults' = faults \cup {"use_after_free"}
                              \cup (IF outcome = "crash" THEN {"crash"} ELSE {})
            /\ thread' = [thread EXCEPT ![t].pc = "done"]
       ELSE /\ thread' = [thread EXCEPT ![t].seen = options[thread[t].opt],
                                        ![t].pc = "use_write"]
            /\ UNCHANGED faults
    /\ UNCHANGED <<sect, options>>
    /\ UNCHANGED apps_vars

\* what the memory of an option holds after a call that read it as seen
\* wrote what it computed: the flags it computed, and the strings it changed
StoreOf(current, seen, computed) ==
    [current EXCEPT
        !.flags = computed.flags,
        !.value = IF computed.value # seen.value THEN computed.value ELSE @,
        !.value_default = IF computed.value_default # seen.value_default
                          THEN computed.value_default ELSE @]

\* the second step: the call writes the option, and returns it. A value
\* that another call replaced since is freed a second time
appconfig_raw_value_of_option_write(t) ==
    /\ ~Crashed
    /\ thread[t].pc = "use_write"
    /\ LET o == thread[t].opt
           seen == thread[t].seen
           computed == IF thread[t].op = "set"
                       THEN appconfig_set_raw_value_of_option(seen, "v")
                       ELSE appconfig_get_raw_value_of_option(seen,
                                IF thread[t].op = "get" THEN "v" ELSE "")
           fault == IF options[o].state = "freed" THEN {"use_after_free"}
                    ELSE IF /\ computed.value # seen.value
                            /\ options[o].value # seen.value
                         THEN {"value_freed_twice"}
                    ELSE {}
       IN  /\ IF fault # {}
              THEN \E outcome \in Outcomes :
                      faults' = faults \cup fault
                                  \cup (IF outcome = "crash" THEN {"crash"} ELSE {})
              ELSE faults' = faults
           /\ options' = [options EXCEPT ![o] =
                            IF options[o].state = "freed" THEN @
                            ELSE StoreOf(@, seen, computed)]
    /\ thread' = [thread EXCEPT ![t].seen = NoConfigOption, ![t].pc = "done"]
    /\ UNCHANGED sect
    /\ UNCHANGED apps_vars

\* appconfig_option_remove_and_delete up to its return or its SECTION_LOCK:
\* the index removes and returns the option that has the name of opt
appconfig_option_remove_del(t) ==
    /\ ~Crashed
    /\ thread[t].pc = "remove"
    /\ LET opt == thread[t].opt
       IN  IF options[opt].state = "freed"
           THEN /\ \E outcome \in Outcomes :
                      faults' = faults \cup {"use_after_free"}
                                  \cup (IF outcome = "crash" THEN {"crash"} ELSE {})
                /\ thread' = [thread EXCEPT ![t].pc = "done"]
                /\ UNCHANGED sect
           ELSE /\ sect' = [sect EXCEPT
                              !.values_index = IndexWithout(options[opt].name)]
                /\ thread' = [thread EXCEPT ![t].pc =
                      IF FindInIndex(options[opt].name) = opt
                      THEN "remove_lock" ELSE "done"]
                /\ UNCHANGED faults
    /\ UNCHANGED options
    /\ UNCHANGED apps_vars

\* SECTION_LOCK of appconfig_option_remove_and_delete
appconfig_option_remove_lock(t) ==
    /\ ~Crashed
    /\ thread[t].pc = "remove_lock"
    /\ sect.lock = NoThread
    /\ sect' = [sect EXCEPT !.lock = t]
    /\ thread' = [thread EXCEPT ![t].pc = "remove_unlink"]
    /\ UNCHANGED <<options, faults>>
    /\ UNCHANGED apps_vars

\* the faults of unlinking and freeing the option o
FaultsOfUnlink(o) ==
    (IF o \notin Range(sect.values) THEN {"remove_not_linked"} ELSE {})
        \cup (IF options[o].state = "freed" THEN {"double_free"} ELSE {})

\* the removal from the list, SECTION_UNLOCK and appconfig_option_free
appconfig_option_remove_unlink(t) ==
    /\ ~Crashed
    /\ thread[t].pc = "remove_unlink"
    /\ LET opt == thread[t].opt
       IN  /\ IF FaultsOfUnlink(opt) # {}
              THEN \E outcome \in Outcomes :
                      faults' = faults \cup FaultsOfUnlink(opt)
                                  \cup (IF outcome = "crash" THEN {"crash"} ELSE {})
              ELSE faults' = faults
           /\ sect' = [sect EXCEPT !.values = RemoveFromList(@, opt),
                                   !.lock = NoThread]
           /\ options' = [options EXCEPT ![opt] = FreedConfigOption]
    /\ thread' = [thread EXCEPT ![t].pc = "done"]
    /\ UNCHANGED apps_vars

\* SECTION_LOCK of appconfig_option_remove_and_delete_all
appconfig_option_remove_and_delete_all_lock(t) ==
    /\ ~Crashed
    /\ thread[t].pc = "all_lock"
    /\ sect.lock = NoThread
    /\ sect' = [sect EXCEPT !.lock = t]
    /\ thread' = [thread EXCEPT ![t].pc = "all_loop"]
    /\ UNCHANGED <<options, faults>>
    /\ UNCHANGED apps_vars

\* the test of the loop: the first option of the list, or SECTION_UNLOCK
appconfig_option_remove_and_delete_all_loop(t) ==
    /\ ~Crashed
    /\ thread[t].pc = "all_loop"
    /\ IF sect.values = <<>>
       THEN /\ sect' = [sect EXCEPT !.lock = NoThread]
            /\ thread' = [thread EXCEPT ![t].pc = "done"]
       ELSE /\ thread' = [thread EXCEPT ![t].opt = Head(sect.values),
                                        ![t].pc = "all_del"]
            /\ UNCHANGED sect
    /\ UNCHANGED <<options, faults>>
    /\ UNCHANGED apps_vars

\* the body of the loop: appconfig_option_remove_and_delete of the first
\* option of the list, with the lock held
appconfig_option_remove_and_delete_all_del(t) ==
    /\ ~Crashed
    /\ thread[t].pc = "all_del"
    /\ LET opt == thread[t].opt
       IN  IF options[opt].state = "freed"
           THEN /\ \E outcome \in Outcomes :
                      faults' = faults \cup {"use_after_free"}
                                  \cup (IF outcome = "crash" THEN {"crash"} ELSE {})
                /\ UNCHANGED <<sect, options>>
           ELSE /\ sect' = [sect EXCEPT
                              !.values_index = IndexWithout(options[opt].name),
                              !.values = IF FindInIndex(options[opt].name) = opt
                                         THEN RemoveFromList(@, opt) ELSE @]
                /\ options' = [options EXCEPT ![opt] =
                                  IF FindInIndex(options[opt].name) = opt
                                  THEN FreedConfigOption ELSE @]
                /\ UNCHANGED faults
    /\ thread' = [thread EXCEPT ![t].pc = "all_loop"]
    /\ UNCHANGED apps_vars

InitOptions ==
    /\ InitOfApps({[config |-> ConfigExactFirst,
                    host |-> CHOOSE h \in HostsOfReaper : TRUE,
                    file_charts |-> TRUE]})
    /\ sect \in Sections
    /\ options = OptionsOfSection(sect)
    /\ \E f \in Programs :
          thread = [t \in Threads |->
                      [op |-> Operations[f[t]],
                       pc |-> FirstStep(Operations[f[t]]),
                       opt |-> NoOption,
                       seen |-> NoConfigOption]]
    /\ faults = {}

NextOptions ==
    \/ \E t \in Threads : appconfig_option_find(t)
    \/ \E t \in Threads : appconfig_option_create_add(t)
    \/ \E t \in Threads : appconfig_option_create_lock(t)
    \/ \E t \in Threads : appconfig_option_create_append(t)
    \/ \E t \in Threads : appconfig_raw_value_of_option_read(t)
    \/ \E t \in Threads : appconfig_raw_value_of_option_write(t)
    \/ \E t \in Threads : appconfig_option_remove_del(t)
    \/ \E t \in Threads : appconfig_option_remove_lock(t)
    \/ \E t \in Threads : appconfig_option_remove_unlink(t)
    \/ \E t \in Threads : appconfig_option_remove_and_delete_all_lock(t)
    \/ \E t \in Threads : appconfig_option_remove_and_delete_all_loop(t)
    \/ \E t \in Threads : appconfig_option_remove_and_delete_all_del(t)

SpecOptions == InitOptions /\ [][NextOptions]_vars

\* ---------------------------------------------------------------------------
\* what the properties speak of

Aggregated == phase = "aggregated"

\* the pids the last call of aggregate_processes_to_targets found in the list
EntryPids == Range(entry.root_of_pids)
\* the pids it left in the list
LivePids == Range(root_of_pids)

AllTargets ==
    Range(apps_groups_root_target) \cup Range(users_root_target)
        \cup Range(groups_root_target)

\* the sum of the metric f of the processes of S
RECURSIVE SumOfValues(_, _)
SumOfValues(S, f) ==
    IF S = {} THEN 0
    ELSE LET p == CHOOSE q \in S : TRUE
         IN  pid_stat[p].values[f] + SumOfValues(S \ {p}, f)

\* the updated processes whose reference of the kind of t is t
UpdatedMembers(t) ==
    { p \in LivePids :
        /\ pid_stat[p].updated
        /\ \/ pid_stat[p].target = t
           \/ pid_stat[p].uid_target = t
           \/ pid_stat[p].gid_target = t }

\* the processes of the list that are not updated and refer to t
StaleMembers(t) ==
    { p \in LivePids :
        /\ ~pid_stat[p].updated
        /\ t \in {pid_stat[p].target, pid_stat[p].uid_target, pid_stat[p].gid_target} }

\* the parents of p in the list the last call found, nearest first
RECURSIVE ParentChain(_)
ParentChain(p) ==
    LET pp == Parent(entry.root_of_pids, p)
    IN  IF pp = NoPid THEN <<>> ELSE <<pp>> \o ParentChain(pp)

\* a rule of apps_groups.conf matches a process, by the mode of the rule
RuleMatches(w, p) ==
    LET comm == host[p].comm
        cmdline == host[p].cmdline
        subject == IF w.starts_with /\ w.ends_with THEN cmdline ELSE comm
    IN  /\ subject # NULL_STRING
        /\ IF w.pattern # NULL_PATTERN THEN subject \in w.pattern[1]
           ELSE IF w.starts_with /\ w.ends_with
           THEN \E i \in 1 .. Len(cmdline), j \in 1 .. Len(cmdline) :
                    SubSeq(cmdline, i, j) = w.compare
           ELSE IF w.starts_with
           THEN \E k \in 0 .. Len(comm) : SubSeq(comm, 1, k) = w.compare
           ELSE IF w.ends_with
           THEN \E k \in 0 .. Len(comm) : SubSeq(comm, k + 1, Len(comm)) = w.compare
           ELSE w.compare \in {comm, host[p].comm_orig}

MatchingRules(p) == { i \in 1 .. Len(config) : RuleMatches(config[i], p) }

\* the target a rule binds a process to
RuleTarget(i) ==
    IF config[i].target # NULL THEN config[i].target ELSE AppGroupTarget(i)

\* p had no target when the last call found it, and the call left it
Classified(p) ==
    /\ p \in EntryPids /\ p \in LivePids
    /\ entry.pid_stat[p].target = NULL

\* matched_by_config and target of an ancestor while the parents are walked
MatchedInCycle(a) ==
    entry.pid_stat[a].matched_by_config \/ pid_stat[a].matched_by_config
TargetInCycle(a) ==
    IF a \in LivePids THEN pid_stat[a].target ELSE entry.pid_stat[a].target

\* ---------------------------------------------------------------------------
\* the properties

\* C1: after every call of aggregate_processes_to_targets, every metric of
\* every target of every list is exactly the sum of that metric over the
\* updated processes that refer to the target; the processes that are not
\* updated add nothing, whatever values they still hold.
TargetsHoldSumOfUpdated ==
    Aggregated =>
        \A t \in AllTargets : \A f \in Metrics :
            target[t].values[f] = SumOfValues(UpdatedMembers(t), f)

\* an app group and a user target that each have an updated member, and a
\* kept member that is not updated and still holds values
StaleMemberBesideUpdated ==
    /\ Aggregated
    /\ \E t \in Range(apps_groups_root_target) :
          /\ UpdatedMembers(t) # {}
          /\ \E q \in StaleMembers(t) : \A f \in Metrics : pid_stat[q].values[f] > 0
    /\ \E t \in Range(users_root_target) :
          /\ UpdatedMembers(t) # {}
          /\ \E q \in StaleMembers(t) : \A f \in Metrics : pid_stat[q].values[f] > 0

\* C2: after a cycle, every updated process has its three targets.
UpdatedHaveAllTargets ==
    Aggregated =>
        \A p \in LivePids :
            pid_stat[p].updated =>
                /\ pid_stat[p].target # NULL
                /\ pid_stat[p].uid_target # NULL
                /\ pid_stat[p].gid_target # NULL

\* three processes that came without targets and left with all of them: one
\* under a rule, one from its parent, one (a process manager) from the tree
NewProcessesGotTargets ==
    /\ Aggregated
    /\ \A p \in Pids :
          /\ Classified(p) /\ pid_stat[p].updated
          /\ entry.pid_stat[p].uid_target = NULL
          /\ entry.pid_stat[p].gid_target = NULL
          /\ pid_stat[p].uid_target # NULL /\ pid_stat[p].gid_target # NULL
    /\ \E p \in Pids : pid_stat[p].target.type = TARGET_TYPE_TREE
    /\ \E p \in Pids : pid_stat[p].matched_by_config
    /\ \E p \in Pids : /\ ~pid_stat[p].matched_by_config
                        /\ pid_stat[p].target.type = TARGET_TYPE_APP_GROUP

\* the place of pid p in the list the last call found
EntryIndex(p) ==
    CHOOSE n \in 1 .. Len(entry.root_of_pids) : entry.root_of_pids[n] = p

\* the places in the chain of parents of p of the ancestors that matched a
\* rule and that the walk from p reaches without meeting a process manager
QualifyingAncestors(p) ==
    LET c == ParentChain(p)
    IN  { k \in 1 .. Len(c) :
            /\ \A j \in 1 .. k : ~host[c[j]].is_manager
            /\ MatchedInCycle(c[k]) }

\* C3: a process without a target after the first loop, not a process
\* manager, gets the target of the tree only if no ancestor qualifies: when
\* an ancestor that matched a rule is reached without meeting a process
\* manager, the process has the target of such an ancestor.
InheritsWheneverAnAncestorQualifies ==
    Aggregated =>
        \A p \in Pids :
            ( /\ Classified(p)
              /\ ~host[p].is_manager
              /\ ~pid_stat[p].matched_by_config
              /\ QualifyingAncestors(p) # {} )
            => /\ pid_stat[p].target.type # TARGET_TYPE_TREE
               /\ \E k \in QualifyingAncestors(p) :
                     pid_stat[p].target = TargetInCycle(ParentChain(p)[k])

\* C4: a process that comes without a target, that no rule matches, that is
\* not a process manager and whose parent has matched_by_config, leaves the
\* cycle with the very target of its parent and without matched_by_config.
ChildInheritsParentTarget ==
    Aggregated =>
        \A p \in Pids :
            LET q == Parent(entry.root_of_pids, p)
            IN  ( /\ Classified(p)
                  /\ MatchingRules(p) = {}
                  /\ ~host[p].is_manager
                  /\ q # NoPid
                  /\ MatchedInCycle(q) )
                => /\ pid_stat[p].target = TargetInCycle(q)
                   /\ ~pid_stat[p].matched_by_config

\* a child that inherited the target of its parent, which is the alias of
\* the rule that matched the parent and not the target of that rule
ChildInheritedAliasTarget ==
    /\ Aggregated
    /\ \E p \in Pids :
          LET q == Parent(entry.root_of_pids, p)
          IN  /\ Classified(p) /\ MatchingRules(p) = {} /\ ~host[p].is_manager
              /\ q # NoPid /\ q \in LivePids
              /\ pid_stat[q].matched_by_config
              /\ pid_stat[p].target = pid_stat[q].target
              /\ \E i \in MatchingRules(q) :
                    /\ \A j \in MatchingRules(q) : i <= j
                    /\ pid_stat[q].target # AppGroupTarget(i)
                    /\ pid_stat[q].target = config[i].target

\* C5: a process that no rule matches and whose parent holds a target when
\* the process is classified, without matched_by_config, gets its own target
\* of the tree, whatever the targets further up.
ChildOfUnmatchedParentGetsTreeTarget ==
    Aggregated =>
        \A p \in Pids :
            LET q == Parent(entry.root_of_pids, p)
            IN  ( /\ Classified(p)
                  /\ MatchingRules(p) = {}
                  /\ q # NoPid
                  /\ ~MatchedInCycle(q)
                  /\ \/ entry.pid_stat[q].target # NULL
                     \/ EntryIndex(q) < EntryIndex(p) )
                => /\ pid_stat[p].target = get_tree_target(p)
                   /\ pid_stat[p].target.type = TARGET_TYPE_TREE

\* a process with the target of the tree, under a parent that held a target
\* without matched_by_config, under a grandparent that matched a rule
TreeTargetBelowMatchedGrandparent ==
    /\ Aggregated
    /\ \E p \in Pids :
          LET q == Parent(entry.root_of_pids, p)
          IN  /\ Classified(p) /\ MatchingRules(p) = {}
              /\ q # NoPid /\ ~MatchedInCycle(q)
              /\ entry.pid_stat[q].target # NULL
              /\ Parent(entry.root_of_pids, q) # NoPid
              /\ MatchedInCycle(Parent(entry.root_of_pids, q))
              /\ ~host[q].is_manager
              /\ pid_stat[p].target = get_tree_target(p)

\* C6: a process manager never has matched_by_config, and its target is
\* never one that get_apps_groups_target_for_pid returned.
ManagerNeverMatchedByConfig ==
    \A p \in LivePids :
        host[p].is_manager =>
            /\ ~pid_stat[p].matched_by_config
            /\ pid_stat[p].target.type \in {NULL.type, TARGET_TYPE_TREE}

\* a process manager whose names a rule matches, seen again in a later
\* cycle: it has the target of the tree
MatchingManagerHasTreeTarget ==
    /\ Aggregated
    /\ \E p \in LivePids :
          /\ host[p].is_manager
          /\ MatchingRules(p) # {}
          /\ entry.pid_stat[p].target # NULL
          /\ pid_stat[p].target.type = TARGET_TYPE_TREE

\* the places of the process managers in the chain of parents of p
ManagersAbove(p) ==
    { m \in 1 .. Len(ParentChain(p)) : host[ParentChain(p)[m]].is_manager }

\* C7: the walk up the parents never crosses a process manager: a process
\* that is a process manager, or that meets a process manager on its way up
\* before any ancestor that matched a rule, inherits nothing and gets the
\* target of the tree.
NoInheritanceAcrossManager ==
    Aggregated =>
        \A p \in Pids :
            ( /\ Classified(p)
              /\ ~pid_stat[p].matched_by_config
              /\ \/ host[p].is_manager
                 \/ \E m \in ManagersAbove(p) :
                        \A k \in 1 .. Len(ParentChain(p)) :
                            MatchedInCycle(ParentChain(p)[k]) => k > m )
            => /\ pid_stat[p].target = get_tree_target(p)
               /\ pid_stat[p].target.type = TARGET_TYPE_TREE

\* a process with the target of the tree, whose parent is a process manager
\* and whose grandparent matched a rule
TreeTargetBelowManager ==
    /\ Aggregated
    /\ \E p \in Pids :
          LET c == ParentChain(p)
          IN  /\ Classified(p) /\ ~host[p].is_manager
              /\ Len(c) >= 2
              /\ host[c[1]].is_manager
              /\ MatchedInCycle(c[2])
              /\ pid_stat[p].target.type = TARGET_TYPE_TREE

\* C8: a process that is not a process manager and comes without a target is
\* bound by the first rule, in the order of the configuration, that matches
\* it by the mode of the rule: to the alias of that rule when it has one, to
\* the target of the rule otherwise, with matched_by_config set.
FirstMatchingRuleWins ==
    Aggregated =>
        \A p \in Pids :
            (Classified(p) /\ ~host[p].is_manager) =>
                \A i \in MatchingRules(p) :
                    (\A j \in MatchingRules(p) : i <= j) =>
                        /\ pid_stat[p].target = RuleTarget(i)
                        /\ pid_stat[p].matched_by_config

\* a process bound to the alias of its first matching rule, while a later
\* rule with another target matches it too
LaterRuleMatchesToo ==
    /\ Aggregated
    /\ \E p \in Pids :
          /\ Classified(p) /\ ~host[p].is_manager
          /\ \E i \in MatchingRules(p), j \in MatchingRules(p) :
                /\ i < j
                /\ \A k \in MatchingRules(p) : i <= k
                /\ RuleTarget(i) # RuleTarget(j)
                /\ config[i].target # NULL
                /\ pid_stat[p].target = config[i].target

\* C9, as claimed: when cleanup_exited_pids runs, a process that is not
\* updated is deleted if and only if its keep is clear: every one that has
\* keep set stays, with keeploops one higher and keep cleared, also when keep
\* was set again after a cycle that kept it.
DeletedIffKeepIsClear ==
    Aggregated =>
        \A p \in EntryPids :
            ~entry.pid_stat[p].updated =>
                /\ p \notin LivePids <=> ~entry.pid_stat[p].keep
                /\ entry.pid_stat[p].keep =>
                      /\ pid_stat[p].keeploops = entry.pid_stat[p].keeploops + 1
                      /\ ~pid_stat[p].keep

\* C9, amended: a process that is not updated is deleted if and only if its
\* keep is clear or its keeploops is above 0: one that has keep set and
\* keeploops 0 stays, with keeploops one higher and keep cleared; one whose
\* keep was set again after a cycle that kept it is deleted.
DeletedIffKeepIsClearOrSpent ==
    Aggregated =>
        \A p \in EntryPids :
            ~entry.pid_stat[p].updated =>
                /\ p \notin LivePids <=>
                      (~entry.pid_stat[p].keep \/ entry.pid_stat[p].keeploops > 0)
                /\ p \in LivePids =>
                      /\ pid_stat[p].keeploops = entry.pid_stat[p].keeploops + 1
                      /\ ~pid_stat[p].keep

\* a process that was not updated, had keep set again after a cycle that
\* kept it, and was deleted, beside one that was kept
KeepSetAgainAndDeleted ==
    /\ Aggregated
    /\ \E p \in EntryPids :
          /\ ~entry.pid_stat[p].updated
          /\ entry.pid_stat[p].keep
          /\ entry.pid_stat[p].keeploops > 0
          /\ p \notin LivePids
    /\ \E p \in EntryPids :
          /\ ~entry.pid_stat[p].updated
          /\ entry.pid_stat[p].keep
          /\ p \in LivePids

\* C10: a process that is not updated and has keep set and keeploops 0 stays
\* for that cycle, with keeploops 1 and keep clear; when the next cycle finds
\* it as that cycle left it (not updated, keep not set again), the next
\* cycle deletes it.
KeepLastsOneCycle ==
    Aggregated =>
        \A p \in EntryPids :
            /\ ( /\ ~entry.pid_stat[p].updated
                  /\ entry.pid_stat[p].keep
                  /\ entry.pid_stat[p].keeploops = 0 )
               => /\ p \in LivePids
                  /\ pid_stat[p].keeploops = 1
                  /\ ~pid_stat[p].keep
                  /\ ~pid_stat[p].updated
            /\ ( /\ ~entry.pid_stat[p].updated
                  /\ ~entry.pid_stat[p].keep
                  /\ entry.pid_stat[p].keeploops = 1 )
               => p \notin LivePids

\* a process that a cycle kept and that the next cycle, finding it not
\* updated and without keep, deleted, beside a process the cycle just kept
KeptProcessDeletedNextCycle ==
    /\ Aggregated
    /\ \E p \in EntryPids :
          /\ ~entry.pid_stat[p].updated
          /\ ~entry.pid_stat[p].keep
          /\ entry.pid_stat[p].keeploops = 1
          /\ p \notin LivePids
    /\ \E p \in LivePids :
          /\ ~entry.pid_stat[p].updated
          /\ entry.pid_stat[p].keep
          /\ entry.pid_stat[p].keeploops = 0
          /\ pid_stat[p].keeploops = 1

\* the updated processes of the list that have the uid u, and the gid g
UpdatedWithUid(u) ==
    { q \in LivePids : pid_stat[q].updated /\ pid_stat[q].uid = u }
UpdatedWithGid(g) ==
    { q \in LivePids : pid_stat[q].updated /\ pid_stat[q].gid = g }

\* C11: after the loop, every process of the list refers to the user target
\* of its uid and to the user group target of its gid, also when it came with
\* the target of another uid or gid; and every user (user group) target holds
\* the sum over the updated processes that have its uid (gid) now, so the
\* target a process left holds nothing of it.
ReboundToTargetOfNewId ==
    Aggregated =>
        /\ \A p \in LivePids :
              /\ pid_stat[p].uid_target.type = TARGET_TYPE_UID
              /\ pid_stat[p].uid_target.key = pid_stat[p].uid
              /\ pid_stat[p].gid_target.type = TARGET_TYPE_GID
              /\ pid_stat[p].gid_target.key = pid_stat[p].gid
        /\ \A t \in Range(users_root_target) : \A f \in Metrics :
              target[t].values[f] = SumOfValues(UpdatedWithUid(t.key), f)
        /\ \A t \in Range(groups_root_target) : \A f \in Metrics :
              target[t].values[f] = SumOfValues(UpdatedWithGid(t.key), f)

\* a process that came with the user target of another uid and one that came
\* with the user group target of another gid, while the targets they left
\* still have an updated process each
ProcessSwitchedUserAndGroup ==
    /\ Aggregated
    /\ \E p \in LivePids :
          /\ entry.pid_stat[p].uid_target # NULL
          /\ entry.pid_stat[p].uid_target.key # entry.pid_stat[p].uid
          /\ pid_stat[p].uid_target # entry.pid_stat[p].uid_target
          /\ UpdatedWithUid(entry.pid_stat[p].uid_target.key) # {}
    /\ \E p \in LivePids :
          /\ entry.pid_stat[p].gid_target # NULL
          /\ entry.pid_stat[p].gid_target.key # entry.pid_stat[p].gid
          /\ pid_stat[p].gid_target # entry.pid_stat[p].gid_target
          /\ UpdatedWithGid(entry.pid_stat[p].gid_target.key) # {}

\* the uptimes of the updated processes that refer to t
UptimesOf(t) == { pid_stat[p].values[PDF_UPTIME] : p \in UpdatedMembers(t) }

\* C12: after a cycle, a target that has updated members holds in uptime_min
\* the least and in uptime_max the greatest of their uptimes, whatever the
\* uptimes (0 too) and the order of the processes in the list; a target
\* without updated members holds 0 in both.
UptimeMinMaxOverUpdated ==
    Aggregated =>
        \A t \in AllTargets :
            IF UptimesOf(t) = {}
            THEN target[t].uptime_min = 0 /\ target[t].uptime_max = 0
            ELSE /\ target[t].uptime_min \in UptimesOf(t)
                 /\ target[t].uptime_max \in UptimesOf(t)
                 /\ \A u \in UptimesOf(t) :
                       target[t].uptime_min <= u /\ u <= target[t].uptime_max

\* the references of a process to its three targets
Bindings(st) == <<st.target, st.uid_target, st.gid_target, st.matched_by_config>>

\* C13: a call of aggregate_processes_to_targets that follows another call,
\* with nothing done to the processes in between, leaves on every target the
\* sums and the uptimes the first call left, leaves the three lists of
\* targets as they were, and leaves every process it does not delete bound
\* to the targets it was bound to; the processes it deletes were not updated.
AggregateAgainChangesNothing ==
    [][ (phase = "aggregated" /\ phase' = "aggregated") =>
          /\ target' = target
          /\ apps_groups_root_target' = apps_groups_root_target
          /\ users_root_target' = users_root_target
          /\ groups_root_target' = groups_root_target
          /\ \A p \in Range(root_of_pids') :
                /\ p \in Range(root_of_pids)
                /\ Bindings(pid_stat'[p]) = Bindings(pid_stat[p])
          /\ \A p \in Range(root_of_pids) \ Range(root_of_pids') :
                ~pid_stat[p].updated ]_vars

\* after a second call in succession: targets with sums, one of them a target
\* of the tree, an updated process, and a kept process the second call deleted
AggregatedTwiceInSuccession ==
    /\ Aggregated
    /\ entry.phase = "aggregated"
    /\ \E p \in LivePids :
          /\ pid_stat[p].updated
          /\ \A f \in Metrics : target[pid_stat[p].target].values[f] > 0
          /\ \A f \in Metrics : target[pid_stat[p].uid_target].values[f] > 0
    /\ \E p \in EntryPids \ LivePids :
          /\ entry.pid_stat[p].keeploops > 0
          /\ entry.pid_stat[p].target.type = TARGET_TYPE_TREE

\* C14: cleanup_exited_pids leaves the targets as the loop over the processes
\* left them: after the call every target has the values, the uptimes and the
\* counts of open files it had before the cleanup, whatever the cleanup
\* deleted; the cleanup only takes processes off the list, in its order, and
\* changes nothing but keep and keeploops of the processes it leaves.
CleanupLeavesTargets ==
    [][ phase' = "aggregated" =>
          \A before \in {processes_on_targets} :
              /\ target' = before.target
              /\ apps_groups_root_target' = before.apps_groups
              /\ users_root_target' = before.users
              /\ groups_root_target' = before.groups
              /\ root_of_pids' =
                     SelectSeq(root_of_pids, LAMBDA p : p \in Range(root_of_pids'))
              /\ \A p \in Range(root_of_pids') :
                    [pid_stat'[p] EXCEPT !.keep = FALSE, !.keeploops = 0] =
                    [before.pid_stat[p] EXCEPT !.keep = FALSE, !.keeploops = 0]
        ]_vars

\* a call that deleted a process with open files and kept another, while
\* the target of the deleted process holds the values and the files of a
\* process that is updated
DeletedBesideKeptAndUpdated ==
    /\ Aggregated
    /\ \E p \in EntryPids \ LivePids, q \in LivePids :
          /\ open_files(entry.pid_stat[p].fds) # {}
          /\ pid_stat[q].updated
          /\ pid_stat[q].target = entry.pid_stat[p].target
          /\ \A f \in Metrics : target[pid_stat[q].target].values[f] > 0
          /\ target[pid_stat[q].target].openfds > 0
          /\ target[pid_stat[q].uid_target].openfds > 0
    /\ \E p \in LivePids :
          /\ ~pid_stat[p].updated
          /\ pid_stat[p].keeploops = entry.pid_stat[p].keeploops + 1

\* the slots of the processes of the list that refer to the file fd
SlotsOf(fd) ==
    UNION { { <<p, c>> : c \in { k \in 1 .. Len(pid_stat[p].fds) :
                                   pid_stat[p].fds[k] = fd } } : p \in LivePids }

\* C15: when cleanup_exited_pids deletes a process, each valid slot of the
\* process is released in the table of the files, once: at every moment the
\* table counts, for each file, exactly the slots of the processes of the
\* list that refer to it, and nothing of a process that was deleted.
FilesCountSlotsOfLivePids ==
    \A fd \in Files : all_files[fd] = Cardinality(SlotsOf(fd))

\* a call that deleted a process with two valid slots, one of a file that a
\* process of the list still has open and one of a file nobody has open now
DeletedProcessReleasedItsFiles ==
    /\ Aggregated
    /\ \E p \in EntryPids \ LivePids :
          /\ Cardinality(open_files(entry.pid_stat[p].fds)) = 2
          /\ \E fd \in open_files(entry.pid_stat[p].fds) : all_files[fd] > 0
          /\ \E fd \in open_files(entry.pid_stat[p].fds) : all_files[fd] = 0

\* the targets of apps_groups.conf in the list of the apps groups targets
AppGroupsOfList ==
    { w \in Range(apps_groups_root_target) : w.type = TARGET_TYPE_APP_GROUP }

\* C16: after every call, apps_groups_targets_count is the number of the
\* targets of type TARGET_TYPE_APP_GROUP, whatever targets of other types
\* (targets of the tree) the same list holds.
CountIsOfAppGroupTargets ==
    Aggregated => apps_groups_targets_count = Cardinality(AppGroupsOfList)

\* the lists that hold the pids of the list pids, in every order
OrdersOf(pids) ==
    { q \in [1 .. Len(pids) -> Range(pids)] :
        \A i, j \in 1 .. Len(pids) : q[i] = q[j] => i = j }

\* C20: the targets assign_a_target_to_all_processes gives do not depend on
\* the order of the list of the processes: with the same parents, rules and
\* targets already set, every order of the list gives every process the
\* target the order of the list gives it.
AssignmentIndependentOfOrder ==
    \A here \in { assign_a_target_to_all_processes(
                      root_of_pids, apps_groups_root_target, pid_stat) } :
        \A q \in OrdersOf(root_of_pids) :
            \A there \in { assign_a_target_to_all_processes(
                               q, apps_groups_root_target, pid_stat) } :
                \A p \in Range(root_of_pids) :
                    there.pid_stat[p].target = here.pid_stat[p].target

\* ---------------------------------------------------------------------------
\* C17: when the threads all create, get with a default value or set the
\* option "x" of one section, then once their calls have returned the index
\* of the section and its list hold one and the same option "x", every call
\* returned that option, and the options freed are the copies of the
\* creators that lost, which were never linked

Creators == {"create", "get", "set"}

OnlyCreators == \A t \in Threads : thread[t].op \in Creators

AllReturned == \A t \in Threads : thread[t].pc = "done"

InIndex(name) == { o \in sect.values_index : options[o].name = name }

InList(name) ==
    { i \in 1 .. Len(sect.values) : options[sect.values[i]].name = name }

OneOptionForAllCreators ==
    (OnlyCreators /\ AllReturned) =>
        /\ Cardinality(InIndex("x")) = 1
        /\ Cardinality(InList("x")) = 1
        /\ \A i \in InList("x") : sect.values[i] \in InIndex("x")
        /\ \A t \in Threads : thread[t].opt \in InIndex("x")
        /\ \A o \in Addresses :
              options[o].state = "freed" =>
                  /\ o \in {OptionOf(t) : t \in Threads}
                  /\ o \notin sect.values_index
                  /\ o \notin Range(sect.values)
        /\ {"use_after_free", "remove_not_linked", "double_free"} \cap faults = {}

\* three calls of different kinds raced to create "x": one created it, the
\* two others freed their copy, and all returned
CreatorsRacedForOneOption ==
    /\ OnlyCreators
    /\ AllReturned
    /\ {thread[t].op : t \in Threads} = Creators
    /\ \E t \in Threads :
          /\ sect.values_index = {OptionOf(t)}
          /\ \A u \in Threads \ {t} : options[OptionOf(u)].state = "freed"

\* ---------------------------------------------------------------------------
\* C18: when the threads create, find and remove the option "x" of one
\* section, no option is unlinked from the list before it was linked into
\* it, no call uses or frees an option that was freed, and once the calls
\* have returned the index and the list hold the same options

CreateFindRemove ==
    \A t \in Threads : thread[t].op \in {"create", "find", "remove"}

OptionsFreedOnlyAfterLinked ==
    CreateFindRemove =>
        /\ "remove_not_linked" \notin faults
        /\ "use_after_free" \notin faults
        /\ "double_free" \notin faults
        /\ AllReturned => sect.values_index = Range(sect.values)

\* ---------------------------------------------------------------------------
\* C19: every turn of the loop of appconfig_option_remove_and_delete_all
\* takes an option off the list, so that the loop ends, and the call
\* returns with the list empty, the index empty and the lock released

RemoveAllEmptiesTheSection ==
    [][\A t \in Threads :
          /\ (thread[t].pc = "all_del" /\ thread'[t].pc = "all_loop") =>
                Len(sect'.values) < Len(sect.values)
          /\ (thread[t].pc = "all_loop" /\ thread'[t].pc = "done") =>
                /\ sect'.values = <<>>
                /\ sect'.values_index = {}
                /\ sect'.lock = NoThread]_vars

\* ---------------------------------------------------------------------------
\* C21: no struct pid_stat is found not updated and kept by two calls of
\* cleanup_exited_pids in a row, whether or not keep is set again between
\* them: the first call deletes it, or else the second does. A call never
\* lowers the keeploops of a process it keeps, and never deletes a process
\* that is updated

RemovedWithinTwoLoops ==
    [][/\ \A p \in Range(root_of_pids') : loops_not_updated'[p] < 2
       /\ phase' = "aggregated" =>
             \A p \in Range(root_of_pids) :
                 /\ pid_stat[p].updated => p \in Range(root_of_pids')
                 /\ p \in Range(root_of_pids') =>
                       pid_stat'[p].keeploops >= pid_stat[p].keeploops]_vars

\* a process that a call kept although it was not updated, that had keep
\* set again and was still not updated when the next call came, which
\* deleted it, beside an updated process that stayed
SecondLoopDeletedDespiteKeep ==
    /\ Aggregated
    /\ entry.phase = "collecting"
    /\ \E p \in EntryPids :
          /\ ~entry.pid_stat[p].updated
          /\ entry.pid_stat[p].keep
          /\ entry.pid_stat[p].keeploops = 1
          /\ p \notin LivePids
    /\ \E p \in EntryPids :
          /\ entry.pid_stat[p].updated
          /\ p \in LivePids

\* ---------------------------------------------------------------------------
\* C22: no step changes or clears the target a struct pid_stat has, or
\* clears its matched_by_config; targets_assignment_counter changes only
\* in aggregate_processes_to_targets, which adds to it the number of the
\* processes it found without a target

WithoutTarget == { p \in Range(root_of_pids) : pid_stat[p].target = NULL }

ClassificationIsSticky ==
    [][/\ \A p \in Range(root_of_pids) \cap Range(root_of_pids') :
             /\ pid_stat[p].target # NULL =>
                   pid_stat'[p].target = pid_stat[p].target
             /\ pid_stat[p].matched_by_config => pid_stat'[p].matched_by_config
       /\ targets_assignment_counter' =
             targets_assignment_counter
                + (IF phase' = "aggregated" THEN Cardinality(WithoutTarget) ELSE 0)
      ]_vars

\* a call found a new process beside one that a rule of apps_groups.conf had
\* given its target in an earlier cycle and that keeps it; the counter has
\* by now counted more processes than the host has pids
NewProcessBesideClassifiedOne ==
    /\ Aggregated
    /\ \E p \in EntryPids : entry.pid_stat[p].target = NULL
    /\ \E q \in EntryPids \cap LivePids :
          /\ entry.pid_stat[q].target # NULL
          /\ entry.pid_stat[q].matched_by_config
          /\ pid_stat[q].target = entry.pid_stat[q].target
    /\ targets_assignment_counter > Cardinality(Pids)

====
